---- MODULE Spec2Model ----
(***************************************************************************)
(* Model of fastgen: the feature-to-template mapping of                    *)
(* TemplateRenderer.get_template_mappings (core/templates.py) and the      *)
(* create run of ProjectGenerator (commands/new.py).                       *)
(*                                                                         *)
(* Python values are written as strings: the booleans "True" and "False",  *)
(* None (and an absent key read with dict.get) "None", and str values as   *)
(* themselves ("y", "n", "async", "postgresql").  Paths and template ids   *)
(* are sequences of path components, so that "under app/db/" is a prefix.  *)
(***************************************************************************)
EXTENDS Integers, Sequences, FiniteSets, TLC

VARIABLES
    project_name,   \* the CLI argument, a sequence of characters
    interactive,    \* the --interactive option
    context,        \* context_manager.context (or the argument of get_template_mappings)
    pc,             \* position of the run
    dirExists,      \* project_path.exists()
    files,          \* destinations written below project_path
    mappings,       \* the mapping returned by get_template_mappings
    idx,            \* position of the loop of _render_templates in mappings
    exitCode,       \* exit code of the process, -1 while it runs
    existedBefore,  \* history: project_path existed when the run began
    createdByRun,   \* history: this run's mkdir created project_path
    overwrite,      \* history: answer to the overwrite prompt
    failed,         \* history: the step that raised
    fsOps,          \* history: kinds of file-system mutation performed
    renderLog,      \* history: templates handed to render_template
    writeLog        \* history: destinations handed to write_file

vars == <<project_name, interactive, context, pc, dirExists, files, mappings,
          idx, exitCode, existedBefore, createdByRun, overwrite, failed,
          fsOps, renderLog, writeLog>>

runVars == <<project_name, interactive, dirExists, files, idx, exitCode,
             existedBefore, createdByRun, overwrite, failed, fsOps,
             renderLog, writeLog>>

----------------------------------------------------------------------------
(* Bounds and input domains *)

MaxNameLen == 3

Letters == {"a", "B"}
Digits == {"1"}
Chars == Letters \cup Digits \cup {"-", "_", " ", "!"}

Names == UNION {[1..n -> Chars] : n \in 1..MaxNameLen}

FlagValues == {"True", "False", "None"}
DatabaseTypes == {"None", "postgresql", "mysql"}

----------------------------------------------------------------------------
(* Python semantics used by the code *)

\* truth value of an object in `if context.get(key):`
Truthy(v) == v \notin {"False", "None", ""}

\* dict.get(key): None for an absent key
Get(ctx, k) == IF k \in DOMAIN ctx THEN ctx[k] ELSE "None"

\* dict.get(key, default)
GetDefault(ctx, k, dflt) == IF k \in DOMAIN ctx THEN ctx[k] ELSE dflt

\* one assignment mappings[t] = d of an insertion-ordered dict
SetItem(m, p) ==
    IF \E i \in DOMAIN m : m[i].t = p.t
    THEN [i \in DOMAIN m |-> IF m[i].t = p.t THEN p ELSE m[i]]
    ELSE Append(m, p)

\* dict.update with the pairs in order
RECURSIVE update(_, _)
update(m, pairs) ==
    IF pairs = <<>> THEN m
    ELSE update(SetItem(m, Head(pairs)), Tail(pairs))

Pair(t, d) == [t |-> t, d |-> d]

\* str.lower on the characters of the model
Lower(c) == IF c = "B" THEN "b" ELSE c

\* name.lower().replace(" ", "_").replace("-", "_")
ToSlug(name) ==
    [i \in DOMAIN name |->
        IF Lower(name[i]) \in {" ", "-"} THEN "_" ELSE Lower(name[i])]

----------------------------------------------------------------------------
(* core/config.py *)

FEATURES ==
    [include_database |-> [options |-> <<"y", "n">>, default |-> "n"],
     include_auth     |-> [options |-> <<"y", "n">>, default |-> "n"],
     include_docker   |-> [options |-> <<"y", "n">>, default |-> "n"],
     include_celery   |-> [options |-> <<"y", "n">>, default |-> "n"],
     async_mode       |-> [options |-> <<"async", "sync">>, default |-> "async"],
     include_loguru   |-> [options |-> <<"y", "n">>, default |-> "y"]]

----------------------------------------------------------------------------
(* core/templates.py: TemplateRenderer.get_template_mappings *)

base_templates ==
    << Pair(<<"base", "main.py.jinja">>, <<"app", "main.py">>),
       Pair(<<"base", "config.py.jinja">>, <<"app", "core", "config.py">>),
       Pair(<<"base", "README.md.jinja">>, <<"README.md">>),
       Pair(<<"base", ".gitignore.jinja">>, <<".gitignore">>),
       Pair(<<"base", "__init__.py.jinja">>, <<"app", "__init__.py">>),
       Pair(<<"base", "pyproject.toml.jinja">>, <<"pyproject.toml">>),
       Pair(<<"base", "api_v1__init__.py.jinja">>, <<"app", "api", "v1", "__init__.py">>),
       Pair(<<"base", ".env.jinja">>, <<"envs", ".env.local">>) >>

IncludeDatabase_Replace(ctx, m) ==
    IF Truthy(Get(ctx, "include_database"))
    THEN << Pair(<<"base", "database.py.jinja">>, <<"app", "db", "database.py">>),
            Pair(<<"base", "models.py.jinja">>, <<"app", "models", "__init__.py">>),
            Pair(<<"base", "schemas.py.jinja">>, <<"app", "schemas", "__init__.py">>) >>
    ELSE m

IncludeDatabase(ctx, m) ==
    IF Truthy(Get(ctx, "include_database"))
    THEN update(m,
        << Pair(<<"base", "database.py.jinja">>, <<"app", "db", "database.py">>),
           Pair(<<"base", "models.py.jinja">>, <<"app", "models", "__init__.py">>),
           Pair(<<"base", "schemas.py.jinja">>, <<"app", "schemas", "__init__.py">>) >>)
    ELSE m

IncludeAuth_SameDestination(ctx, m) ==
    IF Truthy(Get(ctx, "include_auth"))
    THEN update(m,
        << Pair(<<"base", "auth.py.jinja">>, <<"app", "auth", "auth.py">>),
           Pair(<<"base", "security.py.jinja">>, <<"app", "core", "config.py">>) >>)
    ELSE m

IncludeAuth(ctx, m) ==
    IF Truthy(Get(ctx, "include_auth"))
    THEN update(m,
        << Pair(<<"base", "auth.py.jinja">>, <<"app", "auth", "auth.py">>),
           Pair(<<"base", "security.py.jinja">>, <<"app", "core", "security.py">>) >>)
    ELSE m

DockerFiles ==
    << Pair(<<"docker", "docker-compose.yml.jinja">>, <<"docker-compose.yml">>),
       Pair(<<"docker", "fastapi", "entrypoint.sh.jinja">>, <<"docker", "fastapi", "entrypoint.sh">>),
       Pair(<<"docker", "fastapi", "start.sh.jinja">>, <<"docker", "fastapi", "start.sh">>),
       Pair(<<"docker", "fastapi", "Dockerfile">>, <<"docker", "fastapi", "Dockerfile">>) >>

PostgresDockerfile ==
    Pair(<<"docker", "postgres", "Dockerfile.jinja">>, <<"docker", "postgres", "Dockerfile">>)

IncludeDocker_AnyDatabaseType(ctx, m) ==
    IF Truthy(Get(ctx, "include_docker"))
    THEN LET m1 == update(m, DockerFiles)
         IN  IF Truthy(Get(ctx, "include_database"))
             THEN SetItem(m1, PostgresDockerfile)
             ELSE m1
    ELSE m

IncludeDocker(ctx, m) ==
    IF Truthy(Get(ctx, "include_docker"))
    THEN LET m1 == update(m, DockerFiles)
         IN  IF Truthy(Get(ctx, "include_database"))
                /\ Get(ctx, "database_type") = "postgresql"
             THEN SetItem(m1, PostgresDockerfile)
             ELSE m1
    ELSE m

IncludeTests(ctx, m) ==
    IF Truthy(Get(ctx, "include_tests"))
    THEN update(m,
        << Pair(<<"base", "test_main.py.jinja">>, <<"tests", "test_main.py">>),
           Pair(<<"base", "test.py.jinja">>, <<"tests", "test.py">>) >>)
    ELSE m

IncludeLoguru(ctx, m) ==
    IF Truthy(Get(ctx, "include_loguru"))
    THEN SetItem(m, Pair(<<"base", "loguru.py.jinja">>, <<"app", "core", "logger.py">>))
    ELSE m

CeleryFiles ==
    << Pair(<<"celery", "celery_app.py.jinja">>, <<"app", "core", "celery_app.py">>),
       Pair(<<"celery", "tasks.py.jinja">>, <<"app", "tasks", "tasks.py">>),
       Pair(<<"celery", "config.py.jinja">>, <<"app", "tasks", "email_config.py">>),
       Pair(<<"celery", "email_base.py.jinja">>, <<"app", "tasks", "email_base.py">>) >>

\* the worker, beat and flower start scripts of one mode ("async" or "sync")
CeleryScripts(mode) ==
    << Pair(<<"docker", "fastapi", "celery", mode, "worker", "start.sh.jinja">>,
            <<"docker", "fastapi", "celery", "worker", "start.sh">>),
       Pair(<<"docker", "fastapi", "celery", mode, "beat", "start.sh.jinja">>,
            <<"docker", "fastapi", "celery", "beat", "start.sh">>),
       Pair(<<"docker", "fastapi", "celery", mode, "flower", "start.sh.jinja">>,
            <<"docker", "fastapi", "celery", "flower", "start.sh">>) >>

IncludeCelery_ModeSwapped(ctx, m) ==
    IF Truthy(Get(ctx, "include_celery"))
    THEN LET m1 == update(m, CeleryFiles)
         IN  IF Truthy(Get(ctx, "include_docker"))
             THEN IF Truthy(Get(ctx, "is_async"))
                  THEN update(m1, CeleryScripts("sync"))
                  ELSE update(m1, CeleryScripts("async"))
             ELSE m1
    ELSE m

IncludeCelery(ctx, m) ==
    IF Truthy(Get(ctx, "include_celery"))
    THEN LET m1 == update(m, CeleryFiles)
         IN  IF Truthy(Get(ctx, "include_docker"))
             THEN IF Truthy(Get(ctx, "is_async"))
                  THEN update(m1, CeleryScripts("async"))
                  ELSE update(m1, CeleryScripts("sync"))
             ELSE m1
    ELSE m

AsyncTemplates ==
    << Pair(<<"async", "async_db.py.jinja">>, <<"app", "db", "async_db.py">>) >>

SyncTemplates ==
    << Pair(<<"sync", "sync_db.py.jinja">>, <<"app", "db", "sync_db.py">>),
       Pair(<<"sync", "session.py.jinja">>, <<"app", "db", "session.py">>),
       Pair(<<"sync", "base.py.jinja">>, <<"app", "db", "base.py">>) >>

AsyncMode(ctx, m) ==
    IF Truthy(Get(ctx, "is_async"))
    THEN update(m, AsyncTemplates)
    ELSE update(m, SyncTemplates)

get_template_mappings(ctx) ==
    LET m0 == update(<<>>, base_templates)
        m1 == IncludeDatabase(ctx, m0)
        m2 == IncludeAuth(ctx, m1)
        m3 == IncludeDocker(ctx, m2)
        m4 == IncludeTests(ctx, m3)
        m5 == IncludeLoguru(ctx, m4)
        m6 == IncludeCelery(ctx, m5)
    IN  AsyncMode(ctx, m6)

----------------------------------------------------------------------------
(* Resolution of one context: get_template_mappings as a pure function *)

FlagKeys == {"include_database", "include_auth", "include_docker",
             "include_celery", "include_loguru", "include_tests", "is_async"}

Contexts ==
    {f @@ [database_type |-> t] : f \in [FlagKeys -> FlagValues], t \in DatabaseTypes}

InitMap ==
    /\ context \in Contexts
    /\ pc = "resolve"
    /\ mappings = <<>>
    /\ project_name = <<"a">>
    /\ interactive = FALSE
    /\ dirExists = FALSE
    /\ files = {}
    /\ idx = 0
    /\ exitCode = -1
    /\ existedBefore = FALSE
    /\ createdByRun = FALSE
    /\ overwrite = "notasked"
    /\ failed = "none"
    /\ fsOps = {}
    /\ renderLog = <<>>
    /\ writeLog = <<>>

ResolveMappings ==
    /\ pc = "resolve"
    /\ mappings' = get_template_mappings(context)
    /\ pc' = "resolved"
    /\ UNCHANGED <<context, runVars>>

NextMap == ResolveMappings

SpecMap == InitMap /\ [][NextMap]_vars

----------------------------------------------------------------------------
(* Vocabulary of the claims about the mapping *)

IsPrefix(p, s) == Len(p) <= Len(s) /\ SubSeq(s, 1, Len(p)) = p

TemplatesOf(m) == {m[i].t : i \in DOMAIN m}
DestinationsOf(m) == {m[i].d : i \in DOMAIN m}
PairsOf(m) == {m[i] : i \in DOMAIN m}

IsSyncTemplate(t) ==
    IsPrefix(<<"sync">>, t) \/ IsPrefix(<<"docker", "fastapi", "celery", "sync">>, t)

IsAsyncTemplate(t) ==
    IsPrefix(<<"async">>, t) \/ IsPrefix(<<"docker", "fastapi", "celery", "async">>, t)

On(k) == Truthy(Get(context, k))

CeleryScriptDestinations == DestinationsOf(CeleryScripts("async"))

DatabaseDestinations ==
    { <<"app", "db", "database.py">>, <<"app", "models", "__init__.py">>,
      <<"app", "schemas", "__init__.py">>, <<"docker", "postgres", "Dockerfile">> }

IsDatabaseDestination(d) ==
    \/ IsPrefix(<<"app", "db">>, d)
    \/ IsPrefix(<<"app", "models">>, d)
    \/ IsPrefix(<<"app", "schemas">>, d)
    \/ IsPrefix(<<"docker", "postgres">>, d)

NoFeatureEnabled ==
    \A k \in {"include_database", "include_auth", "include_docker",
              "include_celery", "include_loguru", "include_tests"} : ~On(k)

\* C1: a resolved mapping never holds a synchronous and an asynchronous
\* template together, and with is_async false it holds the three synchronous
\* data-access templates and no asynchronous template.
C1_SyncAsyncExclusive ==
    pc = "resolved" =>
        LET T == TemplatesOf(mappings)
        IN  /\ ~(\E s \in T : IsSyncTemplate(s) /\ \E a \in T : IsAsyncTemplate(a))
            /\ ~On("is_async") =>
                   /\ TemplatesOf(SyncTemplates) \subseteq T
                   /\ \A t \in T : ~IsAsyncTemplate(t)

C1_Witness ==
    /\ pc = "resolved"
    /\ ~On("is_async") /\ On("include_celery") /\ On("include_docker")
    /\ <<"docker", "fastapi", "celery", "sync", "beat", "start.sh.jinja">>
           \in TemplatesOf(mappings)
    /\ <<"sync", "session.py.jinja">> \in TemplatesOf(mappings)

\* C2: the destinations of a resolved mapping are pairwise distinct.
C2_DistinctDestinations ==
    pc = "resolved" =>
        \A i, j \in DOMAIN mappings :
            i # j => mappings[i].d # mappings[j].d

C2_Witness ==
    /\ pc = "resolved"
    /\ \A k \in FlagKeys : On(k)
    /\ context.database_type = "postgresql"
    /\ Cardinality(DestinationsOf(mappings)) = Len(mappings)
    /\ Len(mappings) > Len(base_templates)

\* C6: with no feature enabled the resolved mapping is the base template
\* set alone, between 5 and 8 entries.
C6_OnlyBaseTemplates ==
    pc = "resolved" /\ NoFeatureEnabled =>
        /\ Len(mappings) \in 5..8
        /\ PairsOf(mappings) \subseteq PairsOf(base_templates)

\* C7 as stated: docker/postgres/Dockerfile is in the mapping exactly when
\* the database and docker flags are both true, and the celery start
\* scripts exactly when the celery and docker flags are both true.
C7_Original ==
    pc = "resolved" =>
        /\ PostgresDockerfile.d \in DestinationsOf(mappings)
               <=> (On("include_database") /\ On("include_docker"))
        /\ CeleryScriptDestinations \subseteq DestinationsOf(mappings)
               <=> (On("include_celery") /\ On("include_docker"))

\* C7 amended: docker/postgres/Dockerfile is in the mapping exactly when the
\* database and docker flags are both true and database_type is
\* "postgresql"; the celery worker, beat and flower start scripts are in the
\* mapping (all three, or none) exactly when the celery and docker flags are
\* both true.
C7_CombinationTemplates ==
    pc = "resolved" =>
        /\ PostgresDockerfile.d \in DestinationsOf(mappings)
               <=> /\ On("include_database")
                   /\ On("include_docker")
                   /\ Get(context, "database_type") = "postgresql"
        /\ CeleryScriptDestinations \subseteq DestinationsOf(mappings)
               <=> (On("include_celery") /\ On("include_docker"))
        /\ CeleryScriptDestinations \cap DestinationsOf(mappings) # {}
               <=> (On("include_celery") /\ On("include_docker"))

C7_Witness ==
    /\ pc = "resolved"
    /\ On("include_database") /\ On("include_docker") /\ On("include_celery")
    /\ Get(context, "database_type") = "postgresql"
    /\ PostgresDockerfile.d \in DestinationsOf(mappings)
    /\ CeleryScriptDestinations \subseteq DestinationsOf(mappings)

\* C8: for every setting of the other flags, the mapping with the database
\* feature on strictly contains the mapping with it off, and every
\* destination it adds is one of the four database destinations.
C8_DatabaseSuperset ==
    pc = "resolved" /\ On("include_database") =>
        LET off == get_template_mappings([context EXCEPT !.include_database = "False"])
        IN  /\ PairsOf(off) \subseteq PairsOf(mappings)
            /\ PairsOf(off) # PairsOf(mappings)
            /\ DestinationsOf(mappings) \ DestinationsOf(off) \subseteq DatabaseDestinations

C8_Witness ==
    /\ pc = "resolved"
    /\ On("include_database") /\ On("include_docker") /\ On("include_auth")
    /\ Get(context, "database_type") = "postgresql"
    /\ DestinationsOf(mappings)
         \ DestinationsOf(get_template_mappings(
               [context EXCEPT !.include_database = "False"]))
       = DatabaseDestinations

\* C9: with the database feature off, no destination of the resolved
\* mapping lies under app/db/, app/models/, app/schemas/ or docker/postgres/.
C9_NoDatabaseDestinations ==
    pc = "resolved" /\ ~On("include_database") =>
        \A d \in DestinationsOf(mappings) : ~IsDatabaseDestination(d)

----------------------------------------------------------------------------
(* commands/new.py: one run of `create <name> [--interactive]` *)

\* TemplateContext.__init__ of commands/new.py
TemplateContext(name) ==
    [project_name |-> name, project_slug |-> ToSlug(name)]
        @@ [k \in DOMAIN FEATURES |-> FEATURES[k].default]

\* core/utils.py: the name starts with a letter and goes on with letters,
\* digits, hyphens and underscores
validate_project_name(name) ==
    /\ Len(name) > 0
    /\ name[1] \in Letters
    /\ \A i \in 2..Len(name) : name[i] \in Letters \cup Digits \cup {"-", "_"}

\* the database parameters of one project; commands/new.py imports the
\* function from core/config.py, whose source does not define it
collect_postgresql_config(project_slug, is_async) ==
    [database_url |-> IF Truthy(is_async) THEN "postgresql+asyncpg" ELSE "postgresql",
     db_host |-> "localhost",
     db_port |-> "5432",
     db_name |-> project_slug,
     db_user |-> "postgres",
     db_password |-> "password"]

\* core/utils.py: removes the tree at project_path when there is one
cleanup_project ==
    /\ dirExists' = FALSE
    /\ files' = {}

Init ==
    /\ project_name \in Names
    /\ interactive \in BOOLEAN
    /\ existedBefore \in BOOLEAN
    /\ dirExists = existedBefore
    /\ context = TemplateContext(project_name)
    /\ pc = "init"
    /\ files = {}
    /\ mappings = <<>>
    /\ idx = 0
    /\ exitCode = -1
    /\ createdByRun = FALSE
    /\ overwrite = "notasked"
    /\ failed = "none"
    /\ fsOps = {}
    /\ renderLog = <<>>
    /\ writeLog = <<>>

\* ProjectGenerator.__init__: with --interactive, add_interactive_context
\* reads feature_config['type'], a key no entry of FEATURES has; the KeyError
\* is raised outside create_project and ends the process
ProjectGenerator ==
    /\ pc = "init"
    /\ IF interactive
       THEN /\ pc' = "done"
            /\ exitCode' = 1
            /\ failed' = "interactive"
       ELSE /\ pc' = "validate"
            /\ UNCHANGED <<exitCode, failed>>
    /\ UNCHANGED <<project_name, interactive, context, dirExists, files,
                   mappings, idx, existedBefore, createdByRun, overwrite,
                   fsOps, renderLog, writeLog>>

ExceptHandler_NoCleanup ==
    /\ UNCHANGED <<dirExists, files, fsOps>>
    /\ exitCode' = 1
    /\ pc' = "done"

\* `except Exception` of create_project: typer.Exit is an Exception too
ExceptHandler ==
    /\ cleanup_project
    /\ fsOps' = IF dirExists THEN fsOps \cup {"rollback"} ELSE fsOps
    /\ exitCode' = 1
    /\ pc' = "done"

Raise_PropagateExit(step) ==
    /\ failed' = step
    /\ cleanup_project
    /\ fsOps' = IF dirExists THEN fsOps \cup {"rollback"} ELSE fsOps
    /\ exitCode' = IF step = "declined" THEN 0 ELSE 1
    /\ pc' = "done"

Raise(step) ==
    /\ failed' = step
    /\ ExceptHandler

_validate_project ==
    /\ pc = "validate"
    /\ IF ~validate_project_name(project_name)
       THEN /\ Raise("validate")
            /\ UNCHANGED overwrite
       ELSE IF dirExists
            THEN \E answer \in BOOLEAN :
                    IF ~answer
                    THEN /\ overwrite' = "no"
                         /\ Raise("declined")
                    ELSE /\ overwrite' = "yes"
                         /\ cleanup_project
                         /\ fsOps' = fsOps \cup {"overwrite"}
                         /\ pc' = "mkdir"
                         /\ UNCHANGED <<exitCode, failed>>
            ELSE /\ pc' = "mkdir"
                 /\ UNCHANGED <<overwrite, dirExists, files, fsOps, exitCode, failed>>
    /\ UNCHANGED <<project_name, interactive, context, mappings, idx,
                   existedBefore, createdByRun, renderLog, writeLog>>

_create_project_directory ==
    /\ pc = "mkdir"
    /\ \/ /\ ~dirExists
          /\ dirExists' = TRUE
          /\ createdByRun' = TRUE
          /\ fsOps' = fsOps \cup {"mkdir"}
          /\ pc' = "dbconfig"
          /\ UNCHANGED <<files, exitCode, failed>>
       \/ /\ Raise("mkdir")
          /\ UNCHANGED createdByRun
    /\ UNCHANGED <<project_name, interactive, context, mappings, idx,
                   existedBefore, overwrite, renderLog, writeLog>>

\* create_project, the `if include_database` block
CollectDatabaseConfig ==
    /\ pc = "dbconfig"
    /\ IF Truthy(Get(context, "include_database"))
       THEN \/ /\ context' =
                    collect_postgresql_config(context.project_slug,
                                              GetDefault(context, "is_async", "True"))
                        @@ context
               /\ pc' = "dirs"
               /\ UNCHANGED <<dirExists, files, fsOps, exitCode, failed>>
            \/ /\ Raise("dbconfig")
               /\ UNCHANGED context
       ELSE /\ pc' = "dirs"
            /\ UNCHANGED <<context, dirExists, files, fsOps, exitCode, failed>>
    /\ UNCHANGED <<project_name, interactive, mappings, idx, existedBefore,
                   createdByRun, overwrite, renderLog, writeLog>>

\* the first task: create_directory_structure
create_directory_structure ==
    /\ pc = "dirs"
    /\ \/ /\ fsOps' = fsOps \cup {"dirs"}
          /\ pc' = "render"
          /\ UNCHANGED <<dirExists, files, exitCode, failed>>
       \/ Raise("dirs")
    /\ UNCHANGED <<project_name, interactive, context, mappings, idx,
                   existedBefore, createdByRun, overwrite, renderLog, writeLog>>

\* _render_templates: the mapping is resolved once, before the loop
_render_templates ==
    /\ pc = "render"
    /\ mappings' = get_template_mappings(context)
    /\ idx' = 1
    /\ pc' = "loop"
    /\ UNCHANGED <<project_name, interactive, context, dirExists, files,
                   exitCode, existedBefore, createdByRun, overwrite, failed,
                   fsOps, renderLog, writeLog>>

\* one iteration of the loop: render_template, then write_file
RenderAndWrite ==
    /\ pc = "loop"
    /\ idx <= Len(mappings)
    /\ renderLog' = Append(renderLog, mappings[idx].t)
    /\ \/ /\ Raise("render")
          /\ UNCHANGED <<writeLog, idx>>
       \/ /\ writeLog' = Append(writeLog, mappings[idx].d)
          /\ \/ /\ Raise("write")
                /\ UNCHANGED idx
             \/ /\ files' = files \cup {mappings[idx].d}
                /\ fsOps' = fsOps \cup {"write"}
                /\ idx' = idx + 1
                /\ pc' = IF idx = Len(mappings) THEN "initfiles" ELSE "loop"
                /\ UNCHANGED <<dirExists, exitCode, failed>>
    /\ UNCHANGED <<project_name, interactive, context, mappings,
                   existedBefore, createdByRun, overwrite>>

\* the last task, create_init_files, then _show_success_message
create_init_files ==
    /\ pc = "initfiles"
    /\ \/ /\ fsOps' = fsOps \cup {"initfiles"}
          /\ pc' = "done"
          /\ exitCode' = 0
          /\ UNCHANGED <<dirExists, files, failed>>
       \/ Raise("initfiles")
    /\ UNCHANGED <<project_name, interactive, context, mappings, idx,
                   existedBefore, createdByRun, overwrite, renderLog, writeLog>>

Next ==
    \/ ProjectGenerator
    \/ _validate_project
    \/ _create_project_directory
    \/ CollectDatabaseConfig
    \/ create_directory_structure
    \/ _render_templates
    \/ RenderAndWrite
    \/ create_init_files

Spec == Init /\ [][Next]_vars

----------------------------------------------------------------------------
(* Claims about the create run *)

\* C3: when the target directory existed before the run and the user did
\* not confirm the overwrite (declined, or was never asked), the directory
\* still exists when the run ends, and the failure-path cleanup removes a
\* directory only if this run created it.
C3_NoDeleteWithoutConfirmation ==
    pc = "done" =>
        /\ (existedBefore /\ overwrite # "yes") => dirExists
        /\ "rollback" \in fsOps => createdByRun

\* C4: when the project-name validation fails, the run ends without any
\* file-system mutation: nothing created, written or deleted.
C4_ValidationBeforeMutation ==
    (pc = "done" /\ failed = "validate") =>
        /\ fsOps = {}
        /\ dirExists = existedBefore
        /\ files = {}

DefaultTemplates ==
    TemplatesOf(base_templates)
        \cup {<<"base", "loguru.py.jinja">>}
        \cup TemplatesOf(AsyncTemplates)

\* C5: a run without --interactive holds the catalog default of every
\* feature, and the mapping it renders is the base templates, the loguru
\* template and the asynchronous data-access template, nothing else.
C5_DefaultsOnlyMapping ==
    (~interactive /\ mappings # <<>>) =>
        /\ \A k \in DOMAIN FEATURES : context[k] = FEATURES[k].default
        /\ TemplatesOf(mappings) = DefaultTemplates

StepsAfterCreate == {"dbconfig", "dirs", "render", "write", "initfiles"}

\* C10: a run that began without the target directory and failed in a step
\* after creating it ends with the directory absent and a non-zero exit
\* code, having rendered no template after the failing one.
C10_RollbackOnFailure ==
    (pc = "done" /\ ~existedBefore /\ failed \in StepsAfterCreate) =>
        /\ ~dirExists
        /\ files = {}
        /\ exitCode > 0
        /\ failed \in {"dbconfig", "dirs"} => renderLog = <<>> /\ writeLog = <<>>
        /\ failed = "render" =>
               /\ renderLog = [i \in 1..idx |-> mappings[i].t]
               /\ writeLog = [i \in 1..(idx - 1) |-> mappings[i].d]
        /\ failed = "write" =>
               /\ renderLog = [i \in 1..idx |-> mappings[i].t]
               /\ writeLog = [i \in 1..idx |-> mappings[i].d]

C10_Witness ==
    /\ pc = "done"
    /\ ~existedBefore
    /\ createdByRun
    /\ failed = "write"
    /\ idx = 3
    /\ Len(renderLog) = 3
    /\ ~dirExists
    /\ exitCode = 1

\* the run wrote every destination of its mapping and the __init__.py files
FullyMaterialized ==
    /\ dirExists
    /\ mappings # <<>>
    /\ files = DestinationsOf(mappings)
    /\ "initfiles" \in fsOps

\* C11: a finished run has exit code 0 exactly when the project was fully
\* materialized, and a non-zero exit code after an invalid name, a declined
\* overwrite, or a failed render or write.
C11_ExitCodes ==
    pc = "done" =>
        /\ exitCode = 0 <=> FullyMaterialized
        /\ failed \in {"validate", "declined", "render", "write"} => exitCode > 0

C11_Witness ==
    /\ pc = "done"
    /\ validate_project_name(project_name)
    /\ existedBefore
    /\ overwrite = "no"
    /\ failed = "declined"
    /\ exitCode = 1

----------------------------------------------------------------------------
(* core/templates.py: the identifiers TemplateContext derives from the name *)

\* str.upper on the characters of the model
Upper(c) == IF c = "a" THEN "A" ELSE IF c = "b" THEN "B" ELSE c

\* str.lower of a whole string
LowerStr(s) == [i \in DOMAIN s |-> Lower(s[i])]

\* str.replace of one character by another
Replace(s, a, b) == [i \in DOMAIN s |-> IF s[i] = a THEN b ELSE s[i]]

\* str.split(): the maximal runs of non-blank characters, in order
RECURSIVE SplitWords(_, _, _)
SplitWords(s, cur, acc) ==
    IF Len(s) = 0
    THEN IF Len(cur) = 0 THEN acc ELSE Append(acc, cur)
    ELSE IF Head(s) = " "
         THEN SplitWords(Tail(s), <<>>, IF Len(cur) = 0 THEN acc ELSE Append(acc, cur))
         ELSE SplitWords(Tail(s), Append(cur, Head(s)), acc)

Split(s) == SplitWords(s, <<>>, <<>>)

\* str.capitalize: first character upper case, the rest lower case
Capitalize(w) == [i \in DOMAIN w |-> IF i = 1 THEN Upper(w[i]) ELSE Lower(w[i])]

\* "".join(words)
RECURSIVE Join(_)
Join(ws) == IF Len(ws) = 0 THEN <<>> ELSE Head(ws) \o Join(Tail(ws))

_to_slug(name) == Replace(Replace(LowerStr(name), " ", "_"), "-", "_")

_to_class_name_KeepUnderscore(name) ==
    LET words == Split(Replace(name, "-", " "))
    IN  Join([i \in DOMAIN words |-> Capitalize(words[i])])

_to_class_name(name) ==
    LET words == Split(Replace(Replace(name, "-", " "), "_", " "))
    IN  Join([i \in DOMAIN words |-> Capitalize(words[i])])

\* the keys of the base context the claims read; the author, description
\* and version keys are constants and left out
_build_base_context(name) ==
    [project_name |-> name,
     project_slug |-> _to_slug(name),
     project_class |-> _to_class_name(name),
     is_async |-> "True",
     include_database |-> "False",
     database_type |-> "None",
     database_url |-> ""]

InitName ==
    /\ project_name \in Names
    /\ context = [project_name |-> project_name]
    /\ pc = "name"
    /\ mappings = <<>>
    /\ interactive = FALSE
    /\ dirExists = FALSE
    /\ files = {}
    /\ idx = 0
    /\ exitCode = -1
    /\ existedBefore = FALSE
    /\ createdByRun = FALSE
    /\ overwrite = "notasked"
    /\ failed = "none"
    /\ fsOps = {}
    /\ renderLog = <<>>
    /\ writeLog = <<>>

\* TemplateContext.__init__ of core/templates.py
BuildBaseContext ==
    /\ pc = "name"
    /\ context' = _build_base_context(project_name)
    /\ pc' = "built"
    /\ UNCHANGED <<mappings, runVars>>

NextName == BuildBaseContext

SpecName == InitName /\ [][NextName]_vars

AlnumChars == {"a", "A", "b", "B", "1"}

\* C12: for every valid project name the slug is a fixed point of slug
\* derivation (in both places that derive it), and the class name is
\* non-empty and made of letters and digits only.
C12_SlugIdempotentClassAlnum ==
    (pc = "built" /\ validate_project_name(project_name)) =>
        /\ _to_slug(context.project_slug) = context.project_slug
        /\ ToSlug(ToSlug(project_name)) = ToSlug(project_name)
        /\ Len(context.project_class) > 0
        /\ \A i \in 1..Len(context.project_class) :
               context.project_class[i] \in AlnumChars

C12_Witness ==
    /\ pc = "built"
    /\ validate_project_name(project_name)
    /\ project_name = <<"a", "-", "B">>
    /\ context.project_slug = <<"a", "_", "b">>
    /\ context.project_class = <<"A", "B">>

----------------------------------------------------------------------------
(* The database sub-fields of the context of a create run *)

DatabaseFields ==
    {"database_url", "db_host", "db_port", "db_name", "db_user",
     "db_password", "database_type"}

\* the key is present and holds neither None nor the empty string
Populated(ctx, k) == k \in DOMAIN ctx /\ ctx[k] \notin {"None", ""}

\* C13: once the run has resolved its mapping, the database sub-fields of
\* the context are populated exactly when the database feature is enabled:
\* all absent or empty after the answer (or default) 'n', all populated
\* after 'y'.
C13_DatabaseFieldsIffEnabled ==
    (pc \in {"loop", "initfiles", "done"} /\ mappings # <<>>) =>
        /\ context.include_database = "n" =>
               \A k \in DatabaseFields : ~Populated(context, k)
        /\ context.include_database = "y" =>
               \A k \in DatabaseFields : Populated(context, k)

====
